---- MODULE Spec2Model ----
(***************************************************************************)
(* The event-bus proxy of components/eventsrv/src/lib.rs: `proxy` pulls    *)
(* EventEnvelope messages from a PULL socket, caches the latest bytes per  *)
(* service and per ring member, rebroadcasts them on an XPUB socket and    *)
(* answers every subscribe control record with a snapshot of the caches.   *)
(***************************************************************************)
EXTENDS Naturals, Integers, Sequences, FiniteSets, TLC

\* ------------------------------------------------------------------ bounds

\* Messages (envelopes, malformed bytes, control records) the environment
\* hands to the two sockets in one run.
MaxEvents == 4

\* Ring members and services that publishers name in their envelopes.
Members == {"m1", "m2"}
Services == {"redis", "mysql"}

\* ------------------------------------------------------------ wire format

\* The wire bytes of an EventEnvelope carrying the three control fields.
Encode(member_id, service, timestamp) == <<member_id, service, timestamp>>

\* Bytes that are no EventEnvelope.
Malformed == <<"garbage">>

\* parse_from_bytes::<EventEnvelope>(&bytes) returns Ok.
ParseOk(bytes) == Len(bytes) = 3

\* parse_from_bytes::<EventEnvelope>(&bytes), on bytes that parse.
parse_from_bytes(bytes) ==
    [member_id |-> bytes[1], service |-> bytes[2], timestamp |-> bytes[3]]

\* XPUB control records: one byte 1 = subscribe or 0 = unsubscribe, then the
\* topic (the match-all topic is empty).
SubscribeRecord == <<1>>
UnsubscribeRecord == <<0>>

\* ------------------------------------------------------------------ state

VARIABLES
    pc,             \* "loop": in the serving loop; "stopped": left by break;
                    \* "panicked": an unwrap() failed
    pull_queue,     \* messages waiting on pull_sock
    xpub_queue,     \* control records waiting on xpub_sock
    service_cache,  \* service -> <<member_id, bytes>>
    member_cache,   \* member_id -> <<service, bytes>>
    out,            \* every message xpub_sock.send has sent, in order
    processed,      \* every message pull_sock.recv_bytes has returned, in order
    polls,          \* number of times zmq::poll has returned Ok
    lastIter,       \* what the latest loop iteration did
    injected        \* messages handed to the sockets so far

vars == <<pc, pull_queue, xpub_queue, service_cache, member_cache, out,
          processed, polls, lastIter, injected>>

\* HashMap::new()
EmptyMap == [k \in {} |-> <<>>]

\* The map is built anew on every insert: the other entries are lost.
insert_fresh(map, key, value) == [k \in {key} |-> value]

\* HashMap::insert: the entry of `key` is replaced, the others are kept.
insert(map, key, value) ==
    [k \in DOMAIN map \cup {key} |-> IF k = key THEN value ELSE map[k]]

\* The orders in which a HashMap may iterate over the keys `S`.
Orders(S) ==
    {o \in [1..Cardinality(S) -> S] : \A k \in S : \E i \in DOMAIN o : o[i] = k}

NoIter ==
    [inbound |-> "none", bytes |-> <<>>, control |-> "none",
     snapshot |-> <<>>, outBefore |-> 0, failed |-> "none"]

Init ==
    /\ pc = "loop"
    /\ pull_queue = <<>>
    /\ xpub_queue = <<>>
    /\ service_cache = EmptyMap
    /\ member_cache = EmptyMap
    /\ out = <<>>
    /\ processed = <<>>
    /\ polls = 0
    /\ lastIter = NoIter
    /\ injected = 0

\* ------------------------------------------------------------ environment

\* A publisher pushes an envelope; its timestamp is the producer's clock.
Publish ==
    /\ pc = "loop"
    /\ injected < MaxEvents
    /\ \E m \in Members, s \in Services \cup {""} :
          pull_queue' = Append(pull_queue, Encode(m, s, injected + 1))
    /\ injected' = injected + 1
    /\ UNCHANGED <<pc, xpub_queue, service_cache, member_cache, out,
                   processed, polls, lastIter>>

\* A publisher pushes bytes that are no envelope.
PublishMalformed ==
    /\ pc = "loop"
    /\ injected < MaxEvents
    /\ pull_queue' = Append(pull_queue, Malformed)
    /\ injected' = injected + 1
    /\ UNCHANGED <<pc, xpub_queue, service_cache, member_cache, out,
                   processed, polls, lastIter>>

\* A subscriber attaches or detaches: XPUB surfaces a control record.
Control ==
    /\ pc = "loop"
    /\ injected < MaxEvents
    /\ \E rec \in {SubscribeRecord, UnsubscribeRecord} :
          xpub_queue' = Append(xpub_queue, rec)
    /\ injected' = injected + 1
    /\ UNCHANGED <<pc, pull_queue, service_cache, member_cache, out,
                   processed, polls, lastIter>>

\* ------------------------------------------------------------- the proxy

\* recv_bytes called twice: a second waiting message is taken and lost.
recv_bytes_twice(queue) ==
    [msg |-> Head(queue),
     rest |-> IF Len(queue) > 1 THEN Tail(Tail(queue)) ELSE Tail(queue)]

\* recv_bytes(0): the oldest waiting message leaves the socket's queue.
recv_bytes(queue) == [msg |-> Head(queue), rest |-> Tail(queue)]

\* The check for a missing service is left out.
MissingServiceNotChecked(service) == FALSE

\* service.is_empty(): the envelope is dropped with a warning.
MissingService(service) == service = ""

\* The entry of a service already cached is kept (entry().or_insert()).
service_cache_insert_if_absent(sc, event, bytes) ==
    IF event.service \in DOMAIN sc THEN sc
    ELSE insert(sc, event.service, <<event.member_id, bytes>>)

\* The cache is keyed by the message, not by the service alone: no entry is
\* ever overwritten.
service_cache_insert_per_message(sc, event, bytes) ==
    insert(sc, <<event.service, event.timestamp>>, <<event.member_id, bytes>>)

\* The cache keeps the event serialised again, without its timestamp, not the
\* bytes received.
service_cache_insert_reencoded(sc, event, bytes) ==
    insert(sc, event.service,
           <<event.member_id, Encode(event.member_id, event.service, 0)>>)

\* service_cache.insert(service.clone(), (member_id, bytes.clone()))
service_cache_insert(sc, event, bytes) ==
    insert(sc, event.service, <<event.member_id, bytes>>)

\* The entry of a member already cached is kept (entry().or_insert()).
member_cache_insert_if_absent(mc, event, bytes) ==
    IF event.member_id \in DOMAIN mc THEN mc
    ELSE insert(mc, event.member_id, <<event.service, bytes>>)

\* member_cache.insert(member_id, (service, bytes.clone()))
member_cache_insert(mc, event, bytes) ==
    insert(mc, event.member_id, <<event.service, bytes>>)

\* The event is serialised again, without its timestamp, instead of relaying
\* the bytes received.
RebroadcastReencoded(bytes) ==
    LET event == parse_from_bytes(bytes)
    IN  Encode(event.member_id, event.service, 0)

\* The message the inbound branch hands to xpub_sock.send.
Rebroadcast(bytes) == bytes

\* The member check of the second loop applied in the first: a service entry
\* is skipped when its member was met earlier in the iteration.
ServiceMessagesOncePerMember(sc, svcOrder) ==
    LET FirstOfMember(i) ==
            \A j \in 1..(i - 1) : sc[svcOrder[j]][1] # sc[svcOrder[i]][1]
        RECURSIVE Pick(_)
        Pick(i) == IF i > Len(svcOrder) THEN <<>>
                   ELSE (IF FirstOfMember(i) THEN <<sc[svcOrder[i]][2]>> ELSE <<>>)
                        \o Pick(i + 1)
    IN  Pick(1)

\* The first snapshot loop: every service_cache entry's message, iterated in
\* svcOrder.
ServiceMessages(sc, svcOrder) ==
    [i \in 1..Len(svcOrder) |-> sc[svcOrder[i]][2]]

\* members_encountered.insert is left out of the first loop.
MembersEncounteredNone(sc, svcOrder) == {}

\* members_encountered after the first snapshot loop.
MembersEncountered(sc, svcOrder) ==
    {sc[svcOrder[i]][1] : i \in 1..Len(svcOrder)}

\* The member check is left out of the second loop: every member_cache
\* entry is sent.
MemberMessagesAll(mc, memOrder, members_encountered) ==
    [i \in 1..Len(memOrder) |-> mc[memOrder[i]][2]]

\* The second snapshot loop: the message of every member_cache entry whose
\* member is not in members_encountered, iterated in memOrder.
MemberMessages(mc, memOrder, members_encountered) ==
    LET NotEncountered(m) == m \notin members_encountered
        rest == SelectSeq(memOrder, NotEncountered)
    IN  [i \in 1..Len(rest) |-> mc[rest[i]][2]]

\* The messages the subscribe branch hands to xpub_sock.send, in order.
SnapshotMessages(sc, mc, svcOrder, memOrder) ==
    ServiceMessages(sc, svcOrder)
        \o MemberMessages(mc, memOrder, MembersEncountered(sc, svcOrder))

\* The member cache is written before the service check: an envelope with no
\* service still replaces its member's entry.
UpsertMemberAndContinue(got, event, bytes) ==
    [got EXCEPT !.kind = "empty_service", !.flow = "continue",
                !.mc = member_cache_insert(got.mc, event, bytes)]

\* warn!("missing service: ..."); continue;  The envelope is dropped: the
\* rest of the loop body, the outbound check included, is skipped.
WarnAndContinue(got, event, bytes) ==
    [got EXCEPT !.kind = "empty_service", !.flow = "continue"]

\* if poll_items[0].is_readable() { ... }: the inbound branch. The fallible
\* socket calls of one iteration (recv_bytes, send) are numbered from 1 and
\* failAt is the number of the call that returns Err (0: none does); `calls`
\* counts the calls made. flow is "next" (go on to the outbound check),
\* "continue" or "panic" (an unwrap() on Err).
InboundBranch(failAt) ==
    LET idle == [kind |-> "none", bytes |-> <<>>, sc |-> service_cache,
                 mc |-> member_cache, queue |-> pull_queue,
                 processed |-> processed, sent |-> <<>>, flow |-> "next",
                 failed |-> "none", calls |-> 0]
    IN
    IF pull_queue = <<>> THEN idle
    ELSE IF failAt = 1
    THEN [idle EXCEPT !.kind = "recv_failed", !.flow = "panic",
                      !.failed = "pull_recv", !.calls = 1]
    ELSE
    LET r == recv_bytes(pull_queue)
        bytes == r.msg
        got == [idle EXCEPT !.bytes = bytes, !.queue = r.rest, !.calls = 1,
                            !.processed = Append(processed, bytes)]
    IN
    IF ~ParseOk(bytes)
    THEN [got EXCEPT !.kind = "malformed", !.flow = "panic",
                     !.failed = "parse"]
    ELSE
    LET event == parse_from_bytes(bytes) IN
    IF MissingService(event.service)
    THEN WarnAndContinue(got, event, bytes)
    ELSE
    LET cached == [got EXCEPT !.kind = "valid", !.calls = 2,
                       !.sc = service_cache_insert(service_cache, event, bytes),
                       !.mc = member_cache_insert(member_cache, event, bytes)]
    IN
    IF failAt = 2
    THEN [cached EXCEPT !.flow = "panic", !.failed = "rebroadcast"]
    ELSE [cached EXCEPT !.sent = <<Rebroadcast(bytes)>>]

\* The action-code test is left out: every control record is answered.
IsSubscribeNotChecked(event) == TRUE

\* event[0] == 1: the control record is a subscribe record.
IsSubscribe(event) == event[1] = 1

\* The snapshot loops take the maps by value: the caches are emptied.
CachesDrained(sc, mc) == [sc |-> EmptyMap, mc |-> EmptyMap]

\* for ... in &service_cache, for ... in &member_cache: the snapshot loops
\* borrow the maps; these are the caches they leave.
CachesAfterSnapshot(sc, mc) == [sc |-> sc, mc |-> mc]

\* if poll_items[1].is_readable() { ... }: the outbound branch, run on the
\* caches the inbound branch left (sc, mc) after `callsBefore` socket calls.
OutboundBranch(sc, mc, callsBefore, failAt, svcOrder, memOrder) ==
    LET idle == [kind |-> "none", queue |-> xpub_queue, sent |-> <<>>,
                 flow |-> "next", failed |-> "none", calls |-> callsBefore,
                 sc |-> sc, mc |-> mc]
    IN
    IF xpub_queue = <<>> THEN idle
    ELSE IF failAt = callsBefore + 1
    THEN [idle EXCEPT !.kind = "recv_failed", !.flow = "panic",
                      !.failed = "xpub_recv", !.calls = callsBefore + 1]
    ELSE
    LET r == recv_bytes(xpub_queue)
        event == r.msg
        got == [idle EXCEPT !.queue = r.rest, !.calls = callsBefore + 1]
    IN
    IF IsSubscribe(event)
    THEN
        LET planned == SnapshotMessages(sc, mc, svcOrder, memOrder)
            after == CachesAfterSnapshot(sc, mc)
            k == failAt - (callsBefore + 1)
        IN  IF k \in 1..Len(planned)
            THEN [got EXCEPT !.kind = "subscribe",
                             !.sent = SubSeq(planned, 1, k - 1),
                             !.flow = "panic", !.failed = "snapshot",
                             !.calls = callsBefore + 1 + k]
            ELSE [got EXCEPT !.kind = "subscribe", !.sent = planned,
                             !.calls = callsBefore + 1 + Len(planned),
                             !.sc = after.sc, !.mc = after.mc]
    ELSE [got EXCEPT !.kind = "unsubscribe"]

\* No `continue` after the warning: the outbound check is made in every
\* iteration that did not panic.
ReachesOutboundCheckAfterWarn(inb) == inb.flow # "panic"

\* `else if` for the outbound check: it is made only when pull_sock was not
\* readable.
ReachesOutboundCheckElse(inb) == inb.flow = "next" /\ inb.kind = "none"

\* The outbound check at the end of the loop body is reached unless the
\* inbound branch left by `continue` or panicked.
ReachesOutboundCheck(inb) == inb.flow = "next"

\* The loop body after zmq::poll returned Ok: the inbound branch if pull_sock
\* is readable, then, unless that branch left by `continue` or panicked, the
\* outbound branch if xpub_sock is readable.
LoopBody(failAt, svcOrder, memOrder) ==
    LET inb == InboundBranch(failAt)
        skipped == [kind |-> IF xpub_queue = <<>> THEN "none" ELSE "skipped",
                    queue |-> xpub_queue, sent |-> <<>>, flow |-> inb.flow,
                    failed |-> "none", calls |-> inb.calls,
                    sc |-> inb.sc, mc |-> inb.mc]
        outb == IF ReachesOutboundCheck(inb)
                THEN OutboundBranch(inb.sc, inb.mc, inb.calls, failAt,
                                    svcOrder, memOrder)
                ELSE skipped
    IN  [inb |-> inb, outb |-> outb, calls |-> outb.calls]

\* One pass of the loop: zmq::poll returns Ok once a socket is readable, then
\* the loop body runs. The HashMap iteration orders are drawn only when the
\* body reaches the snapshot loops.
Iteration ==
    /\ pc = "loop"
    /\ pull_queue # <<>> \/ xpub_queue # <<>>
    /\ \E clean \in {InboundBranch(0)} :
       LET snapshots == /\ ReachesOutboundCheck(clean)
                        /\ xpub_queue # <<>>
                        /\ IsSubscribe(Head(xpub_queue))
       IN
       \E svcOrder \in IF snapshots THEN Orders(DOMAIN clean.sc) ELSE {<<>>},
          memOrder \in IF snapshots THEN Orders(DOMAIN clean.mc) ELSE {<<>>} :
          \E full \in {LoopBody(0, svcOrder, memOrder)} :
          \E failAt \in 0..full.calls :
          \E body \in {IF failAt = 0 THEN full
                       ELSE LoopBody(failAt, svcOrder, memOrder)} :
          \E inb \in {body.inb}, outb \in {body.outb} :
             /\ pull_queue' = inb.queue
             /\ processed' = inb.processed
             /\ service_cache' = outb.sc
             /\ member_cache' = outb.mc
             /\ xpub_queue' = outb.queue
             /\ out' = out \o inb.sent \o outb.sent
             /\ pc' = IF inb.flow = "panic" \/ outb.flow = "panic"
                      THEN "panicked" ELSE "loop"
             /\ lastIter' = [inbound |-> inb.kind, bytes |-> inb.bytes,
                             control |-> outb.kind, snapshot |-> outb.sent,
                             outBefore |-> Len(out),
                             failed |-> IF inb.failed # "none" THEN inb.failed
                                        ELSE outb.failed]
    /\ polls' = polls + 1
    /\ UNCHANGED injected

\* zmq::poll returns Err: break.
PollFails ==
    /\ pc = "loop"
    /\ pc' = "stopped"
    /\ UNCHANGED <<pull_queue, xpub_queue, service_cache, member_cache, out,
                   processed, polls, lastIter, injected>>

Next == Publish \/ PublishMalformed \/ Control \/ Iteration \/ PollFails

Spec == Init /\ [][Next]_vars

\* ------------------------------------------------- what the run has seen

Range(seq) == {seq[i] : i \in DOMAIN seq}

Max(S) == CHOOSE x \in S : \A y \in S : y <= x

\* A valid envelope: bytes that decode and name a service.
IsValid(bytes) == ParseOk(bytes) /\ parse_from_bytes(bytes).service # ""

\* A decodable envelope with an empty service field.
IsEmptyService(bytes) == ParseOk(bytes) /\ parse_from_bytes(bytes).service = ""

\* Positions in `processed` of the valid envelopes.
ValidIndexes == {i \in DOMAIN processed : IsValid(processed[i])}

MemberIndexes(m) ==
    {i \in ValidIndexes : parse_from_bytes(processed[i]).member_id = m}

ServiceIndexes(s) ==
    {i \in ValidIndexes : parse_from_bytes(processed[i]).service = s}

PublishedMembers ==
    {parse_from_bytes(processed[i]).member_id : i \in ValidIndexes}

PublishedServices ==
    {parse_from_bytes(processed[i]).service : i \in ValidIndexes}

\* The most recently processed valid envelope of a member, of a service.
LatestOfMember(m) == processed[Max(MemberIndexes(m))]
LatestOfService(s) == processed[Max(ServiceIndexes(s))]

\* The latest iteration handled a subscribe record and sent its whole snapshot.
SnapshotDone == lastIter.control = "subscribe" /\ lastIter.failed = "none"

\* What the latest iteration sent on the outbound channel.
SentByLastIter == SubSeq(out, lastIter.outBefore + 1, Len(out))

\* ----------------------------------------------------------------- claims

\* C1: the snapshot sent for a subscribe record contains, for every member
\* that has had a valid envelope processed, the bytes of that member's most
\* recently processed valid envelope.
C1_SnapshotHasLatestOfEveryMember ==
    SnapshotDone =>
        \A m \in PublishedMembers : LatestOfMember(m) \in Range(lastIter.snapshot)

\* C2: the snapshot sent for a subscribe record contains, for every service
\* that has had a valid envelope processed, the bytes of the most recently
\* processed valid envelope of that service.
C2_SnapshotHasLatestOfEveryService ==
    SnapshotDone =>
        \A s \in PublishedServices : LatestOfService(s) \in Range(lastIter.snapshot)

\* A snapshot was sent after two services were published to, one of them
\* more than once.
C2_Witness ==
    /\ SnapshotDone
    /\ Cardinality(PublishedServices) = 2
    /\ \E s \in PublishedServices : Cardinality(ServiceIndexes(s)) >= 2

\* C3: the number of messages sent for one subscribe record is at most S + M,
\* the numbers of distinct services and members of the valid envelopes
\* processed so far, which is |ServiceCache| + |MemberCache|.
C3_SnapshotSizeBound ==
    SnapshotDone =>
        /\ Len(lastIter.snapshot)
              <= Cardinality(PublishedServices) + Cardinality(PublishedMembers)
        /\ Len(lastIter.snapshot)
              <= Cardinality(DOMAIN service_cache) + Cardinality(DOMAIN member_cache)

\* A snapshot of three messages: two service entries and a member whose
\* service entry was overwritten by another member.
C3_Witness == SnapshotDone /\ Len(lastIter.snapshot) = 3

\* C4: a valid envelope received on the inbound channel is written to both
\* caches and then broadcast once, byte-identical, before anything else the
\* iteration sends; if the broadcast fails, the caches already hold the bytes.
C4_ValidEnvelopeCachedThenBroadcast ==
    IsValid(lastIter.bytes) =>
        LET bytes == lastIter.bytes
            event == parse_from_bytes(bytes)
        IN  /\ event.service \in DOMAIN service_cache
            /\ service_cache[event.service] = <<event.member_id, bytes>>
            /\ event.member_id \in DOMAIN member_cache
            /\ member_cache[event.member_id] = <<event.service, bytes>>
            /\ IF lastIter.failed = "rebroadcast"
               THEN SentByLastIter = <<>>
               ELSE SentByLastIter = <<bytes>> \o lastIter.snapshot

\* A valid envelope was processed and broadcast while an older message of the
\* same member and service was cached.
C4_Witness ==
    /\ IsValid(lastIter.bytes)
    /\ lastIter.failed = "none"
    /\ Len(out) = lastIter.outBefore + 1
    /\ Cardinality(MemberIndexes(parse_from_bytes(lastIter.bytes).member_id)) >= 2

\* C5: ServiceCache has exactly one entry per service and MemberCache one per
\* member of the valid envelopes processed, and each entry holds the bytes
\* (and the counterpart identity) of the most recently processed valid
\* envelope of its key.
C5_CachesHoldLatest ==
    /\ DOMAIN service_cache = PublishedServices
    /\ DOMAIN member_cache = PublishedMembers
    /\ \A s \in PublishedServices :
          service_cache[s] =
              <<parse_from_bytes(LatestOfService(s)).member_id, LatestOfService(s)>>
    /\ \A m \in PublishedMembers :
          member_cache[m] =
              <<parse_from_bytes(LatestOfMember(m)).service, LatestOfMember(m)>>

\* A service has been published to twice, by two members.
C5_Witness ==
    \E s \in PublishedServices :
        /\ Cardinality(ServiceIndexes(s)) >= 2
        /\ parse_from_bytes(processed[CHOOSE i \in ServiceIndexes(s) : TRUE]).member_id
              # parse_from_bytes(LatestOfService(s)).member_id

\* C6: processing a decodable envelope whose service field is empty leaves
\* both caches unchanged and sends nothing on the outbound channel, and the
\* loop keeps running.
C6_EmptyServiceChangesNothing ==
    [][(/\ Len(processed') = Len(processed) + 1
        /\ IsEmptyService(processed'[Len(processed')]))
       => /\ service_cache' = service_cache
          /\ member_cache' = member_cache
          /\ out' = out
          /\ pc' = "loop"]_vars

\* An envelope with an empty service was processed, from a member that has a
\* cache entry, while a control record was waiting.
C6_Witness ==
    /\ IsEmptyService(lastIter.bytes)
    /\ parse_from_bytes(lastIter.bytes).member_id \in DOMAIN member_cache
    /\ lastIter.control = "skipped"
    /\ pc = "loop"

\* C7 as stated: processing a decodable envelope whose service field is empty
\* replaces the MemberCache entry of its member with (service, raw bytes),
\* leaves ServiceCache untouched, and the message is never sent.
C7_EmptyServiceReplacesMemberEntry ==
    IsEmptyService(lastIter.bytes) =>
        LET bytes == lastIter.bytes
            m == parse_from_bytes(bytes).member_id
        IN  /\ m \in DOMAIN member_cache
            /\ member_cache[m] = <<"", bytes>>
            /\ "" \notin DOMAIN service_cache
            /\ bytes \notin Range(out)

\* C7, amended: an envelope whose service field is empty, once processed, is
\* in neither cache (the MemberCache entry of its member is still that of the
\* member's latest valid envelope, or absent) and it is never sent on the
\* outbound channel, neither as a rebroadcast nor in a later snapshot.
C7_EmptyServiceNeverCachedNorSent ==
    \A i \in DOMAIN processed :
        IsEmptyService(processed[i]) =>
            LET bytes == processed[i]
                m == parse_from_bytes(bytes).member_id
            IN  /\ bytes \notin Range(out)
                /\ "" \notin DOMAIN service_cache
                /\ \A s \in DOMAIN service_cache : service_cache[s][2] # bytes
                /\ IF m \in PublishedMembers
                   THEN /\ m \in DOMAIN member_cache
                        /\ member_cache[m] =
                              <<parse_from_bytes(LatestOfMember(m)).service,
                                LatestOfMember(m)>>
                   ELSE m \notin DOMAIN member_cache

\* A member published a valid envelope and then one with an empty service,
\* and a snapshot was sent after both were processed.
C7_Witness ==
    /\ SnapshotDone
    /\ lastIter.snapshot # <<>>
    /\ \E i \in DOMAIN processed :
          /\ IsEmptyService(processed[i])
          /\ \E j \in MemberIndexes(parse_from_bytes(processed[i]).member_id) : j < i

\* C8: bytes received on the inbound channel that do not decode as an
\* envelope do not end the serving loop, and they are neither cached nor
\* sent.
C8_MalformedDoesNotEndLoop ==
    (\E i \in DOMAIN processed : ~ParseOk(processed[i])) =>
        /\ pc # "panicked"
        /\ \A i \in DOMAIN processed :
              ~ParseOk(processed[i]) =>
                  /\ processed[i] \notin Range(out)
                  /\ \A s \in DOMAIN service_cache : service_cache[s][2] # processed[i]
                  /\ \A m \in DOMAIN member_cache : member_cache[m][2] # processed[i]

\* Messages taken from each socket by one step.
TakenInbound == Len(pull_queue) - Len(pull_queue')
TakenControl == Len(xpub_queue) - Len(xpub_queue')

\* C9 as stated: each return of the wait is followed by the processing of
\* exactly one event, an inbound message or a control record and never both,
\* before the wait is re-entered.
C9_ExactlyOneEventPerWait ==
    [][(polls' = polls + 1 /\ pc' = "loop")
       => TakenInbound + TakenControl = 1]_vars

\* C9, amended: each return of the wait is followed by the processing of at
\* most one inbound message and at most one control record, and of at least
\* one of the two when the wait is re-entered; whatever the inbound branch
\* sends precedes the snapshot.
C9_AtMostOneEventPerChannel ==
    [][polls' = polls + 1
       => /\ TakenInbound \in {0, 1}
          /\ TakenControl \in {0, 1}
          /\ pc' = "loop" => TakenInbound + TakenControl >= 1
          /\ Len(processed') - Len(processed) = TakenInbound
          /\ \E sent \in {SubSeq(out', Len(out) + 1, Len(out'))} :
                \/ sent = lastIter'.snapshot
                \/ sent = <<lastIter'.bytes>> \o lastIter'.snapshot]_vars

\* One iteration processed an inbound envelope and a subscribe record.
C9_Witness ==
    /\ IsValid(lastIter.bytes)
    /\ SnapshotDone
    /\ pc = "loop"

\* C10: the serving loop ends only when the wait fails: no message, control
\* record, receive result or send result ends it.
C10_LoopEndsOnlyOnPollFailure == pc \in {"loop", "stopped"}

\* How often `bytes` occurs in `seq`.
Count(seq, bytes) == Cardinality({i \in DOMAIN seq : seq[i] = bytes})

\* The members recorded as last publisher in a ServiceCache entry.
RecordedMembers == {service_cache[s][1] : s \in DOMAIN service_cache}

\* The messages a snapshot of the caches is to hold.
ExpectedSnapshot ==
    {service_cache[s][2] : s \in DOMAIN service_cache}
        \cup {member_cache[m][2] : m \in DOMAIN member_cache \ RecordedMembers}

\* C11: the messages sent for one subscribe record are the bytes of every
\* ServiceCache entry and of every MemberCache entry whose member is not the
\* recorded member of a ServiceCache entry, each once, in any order; two valid
\* envelopes for two different services yield exactly 2 messages and empty
\* caches yield none.
C11_SnapshotIsServiceEntriesPlusOtherMembers ==
    SnapshotDone =>
        /\ Range(lastIter.snapshot) = ExpectedSnapshot
        /\ \A b \in ExpectedSnapshot : Count(lastIter.snapshot, b) = 1
        /\ (Cardinality(ValidIndexes) = 2 /\ Cardinality(PublishedServices) = 2)
              => Len(lastIter.snapshot) = 2
        /\ ValidIndexes = {} => lastIter.snapshot = <<>>

\* A snapshot holding a message that only MemberCache has, next to a service
\* entry.
C11_Witness ==
    /\ SnapshotDone
    /\ DOMAIN member_cache \ RecordedMembers # {}
    /\ Len(lastIter.snapshot) >= 2

\* C12: when all valid envelopes of a member went to one service and that
\* service's latest envelope is the member's latest, the member's latest bytes
\* occur exactly once in the snapshot sent for a subscribe record.
C12_SingleServiceMemberSentOnce ==
    SnapshotDone =>
        \A m \in PublishedMembers :
            LET s == parse_from_bytes(LatestOfMember(m)).service IN
            (/\ MemberIndexes(m) \subseteq ServiceIndexes(s)
             /\ LatestOfService(s) = LatestOfMember(m))
            => Count(lastIter.snapshot, LatestOfMember(m)) = 1

\* A snapshot sent after a member published twice to its one service, while
\* another member is cached too.
C12_Witness ==
    /\ SnapshotDone
    /\ Cardinality(PublishedMembers) = 2
    /\ \E m \in PublishedMembers :
          LET s == parse_from_bytes(LatestOfMember(m)).service IN
          /\ Cardinality(MemberIndexes(m)) >= 2
          /\ MemberIndexes(m) \subseteq ServiceIndexes(s)
          /\ LatestOfService(s) = LatestOfMember(m)

\* C13: no processed envelope is sent more than once within the snapshot of
\* one subscribe record.
C13_NoMessageTwiceInSnapshot ==
    SnapshotDone =>
        \A i \in DOMAIN processed : Count(lastIter.snapshot, processed[i]) <= 1

\* A snapshot of three messages: both loops sent something.
C13_Witness ==
    /\ SnapshotDone
    /\ Len(lastIter.snapshot) = 3
    /\ Cardinality(DOMAIN service_cache) = 2

\* ------------------------------------------------ a third service (C14)

\* The services of the runs in which one member publishes to three services.
WideServices == Services \cup {"nginx"}

\* A publisher pushes a valid envelope for one of the three services.
PublishWide ==
    /\ pc = "loop"
    /\ injected < MaxEvents
    /\ \E m \in Members, s \in WideServices :
          pull_queue' = Append(pull_queue, Encode(m, s, injected + 1))
    /\ injected' = injected + 1
    /\ UNCHANGED <<pc, xpub_queue, service_cache, member_cache, out,
                   processed, polls, lastIter>>

NextWide == PublishWide \/ Control \/ Iteration \/ PollFails

SpecWide == Init /\ [][NextWide]_vars

\* The messages of a snapshot that originate from member m.
SnapshotMessagesOf(m) ==
    {i \in DOMAIN lastIter.snapshot :
        parse_from_bytes(lastIter.snapshot[i]).member_id = m}

\* The services whose most recently processed valid envelope is from m.
ServicesLedBy(m) ==
    {s \in PublishedServices : parse_from_bytes(LatestOfService(s)).member_id = m}

\* C14 as stated: at most two messages of the snapshot sent for one subscribe
\* record originate from the same member.
C14_AtMostTwoMessagesPerMember ==
    SnapshotDone =>
        \A m \in Members : Cardinality(SnapshotMessagesOf(m)) <= 2

\* C14, amended: a member contributes to a snapshot one message per service
\* whose latest envelope is its own, or one message (its MemberCache entry)
\* when no service's latest envelope is its own: at most as many messages as
\* there are services, not at most two.
C14_OneMessagePerServiceLed ==
    SnapshotDone =>
        \A m \in Members :
            /\ Cardinality(SnapshotMessagesOf(m)) =
                  IF ServicesLedBy(m) # {} THEN Cardinality(ServicesLedBy(m))
                  ELSE IF m \in PublishedMembers THEN 1 ELSE 0
            /\ Cardinality(SnapshotMessagesOf(m))
                  <= IF PublishedServices = {} THEN 1
                     ELSE Cardinality(PublishedServices)

\* A snapshot holding three messages of one member, one per service.
C14_Witness ==
    /\ SnapshotDone
    /\ \E m \in Members : Cardinality(SnapshotMessagesOf(m)) = 3

\* ------------------------------------------------ control records (C15-C17)

\* The step takes a control record of this kind from xpub_sock.
TakesControl(rec) ==
    /\ polls' = polls + 1
    /\ TakenControl = 1
    /\ Head(xpub_queue) = rec

\* The caches after the step are the caches before it, but for the entries of
\* the valid envelope `bytes` that the same step took from pull_sock.
CachesChangedOnlyBy(bytes) ==
    LET event == parse_from_bytes(bytes) IN
    /\ DOMAIN service_cache' = DOMAIN service_cache \cup {event.service}
    /\ DOMAIN member_cache' = DOMAIN member_cache \cup {event.member_id}
    /\ \A s \in DOMAIN service_cache :
          s # event.service => service_cache'[s] = service_cache[s]
    /\ \A m \in DOMAIN member_cache :
          m # event.member_id => member_cache'[m] = member_cache[m]

\* C15: receiving an unsubscribe control record sends nothing on the outbound
\* channel and leaves both caches unchanged (an envelope handled earlier in the
\* same iteration is rebroadcast and cached as usual).
C15_UnsubscribeSendsNothing ==
    [][TakesControl(UnsubscribeRecord)
       => IF TakenInbound = 0
          THEN /\ out' = out
               /\ service_cache' = service_cache
               /\ member_cache' = member_cache
          ELSE /\ out' = Append(out, Head(pull_queue))
               /\ CachesChangedOnlyBy(Head(pull_queue))]_vars

\* An unsubscribe record was handled, alone, while the caches held entries.
C15_Witness ==
    /\ lastIter.control = "unsubscribe"
    /\ lastIter.inbound = "none"
    /\ DOMAIN service_cache # {}
    /\ pc = "loop"

\* C16: cache entries are never removed: a key of ServiceCache or MemberCache
\* is a key in every later state.
C16_CacheKeysOnlyGrow ==
    [][/\ DOMAIN service_cache \subseteq DOMAIN service_cache'
       /\ DOMAIN member_cache \subseteq DOMAIN member_cache']_vars

\* Both caches hold two keys after a control record was handled.
C16_Witness ==
    /\ Cardinality(DOMAIN service_cache) = 2
    /\ Cardinality(DOMAIN member_cache) = 2
    /\ lastIter.control \in {"subscribe", "unsubscribe"}

\* C17: handling a subscribe record does not modify the caches, and a
\* subscribe record handled right after another one, with no envelope
\* processed between them, is answered with the same messages.
C17_SubscribeLeavesCaches ==
    [][TakesControl(SubscribeRecord)
       => IF TakenInbound = 0
          THEN /\ service_cache' = service_cache
               /\ member_cache' = member_cache
               /\ (SnapshotDone /\ pc' = "loop")
                     => /\ Range(lastIter'.snapshot) = Range(lastIter.snapshot)
                        /\ Len(lastIter'.snapshot) = Len(lastIter.snapshot)
          ELSE CachesChangedOnlyBy(Head(pull_queue))]_vars

\* Two envelopes were rebroadcast and then two snapshots of two messages each
\* were sent.
C17_Witness ==
    /\ SnapshotDone
    /\ lastIter.inbound = "none"
    /\ Len(lastIter.snapshot) = 2
    /\ Len(out) = 6

\* ------------------------------------------------------------ C18 - C20

PositionOf(bytes) == CHOOSE i \in DOMAIN processed : processed[i] = bytes

\* C19: the caches are consistent with each other: the member recorded in a
\* ServiceCache entry is a key of MemberCache, the service recorded in a
\* MemberCache entry is non-empty and a key of ServiceCache, and a member's
\* MemberCache entry is not older than a ServiceCache entry recording that
\* member.
C19_CachesMutuallyConsistent ==
    /\ \A s \in DOMAIN service_cache :
          LET m == service_cache[s][1] IN
          /\ m \in DOMAIN member_cache
          /\ service_cache[s][2] \in Range(processed)
          /\ member_cache[m][2] \in Range(processed)
          /\ PositionOf(member_cache[m][2]) >= PositionOf(service_cache[s][2])
    /\ \A m \in DOMAIN member_cache :
          /\ member_cache[m][1] # ""
          /\ member_cache[m][1] \in DOMAIN service_cache

\* A member's MemberCache entry is newer than a ServiceCache entry that
\* records the member, and an envelope without service has been processed.
C19_Witness ==
    /\ \E s \in DOMAIN service_cache :
          PositionOf(member_cache[service_cache[s][1]][2])
              > PositionOf(service_cache[s][2])
    /\ \E i \in DOMAIN processed : IsEmptyService(processed[i])

\* C20: when a valid envelope waits on pull_sock and a subscribe record on
\* xpub_sock, one iteration handles the envelope and then the record: the
\* envelope is rebroadcast, the snapshot that follows holds it, and so it is
\* sent twice on the outbound channel.
C20_PublishThenSubscribeInOneIteration ==
    [][(/\ polls' = polls + 1
        /\ pc' = "loop"
        /\ pull_queue # <<>>
        /\ xpub_queue # <<>>
        /\ IsValid(Head(pull_queue))
        /\ Head(xpub_queue) = SubscribeRecord)
       => \E sent \in {SubSeq(out', Len(out) + 1, Len(out'))} :
             /\ TakenInbound = 1
             /\ TakenControl = 1
             /\ Len(sent) >= 2
             /\ sent[1] = Head(pull_queue)
             /\ Tail(sent) = lastIter'.snapshot
             /\ Count(Tail(sent), Head(pull_queue)) = 1
             /\ Count(sent, Head(pull_queue)) = 2]_vars

\* One iteration rebroadcast an envelope and sent a snapshot of two messages,
\* the envelope among them.
C20_Witness ==
    /\ IsValid(lastIter.bytes)
    /\ SnapshotDone
    /\ Len(lastIter.snapshot) = 2
    /\ Count(SentByLastIter, lastIter.bytes) = 2

\* ------------------------------------------------------------------ C21

\* The loop runs on: once zmq::poll has a readable socket the loop body is
\* executed. The poll may still fail and every socket call may still return
\* Err.
SpecFair == Spec /\ WF_vars(Iteration)

\* The same loop with fewer publishers, for the runs that are checked for
\* liveness: one member publishes, to one service or to none.
PublishOne ==
    /\ pc = "loop"
    /\ injected < MaxEvents
    /\ \E m \in {CHOOSE m \in Members : TRUE},
          s \in {CHOOSE s \in Services : TRUE, ""} :
          pull_queue' = Append(pull_queue, Encode(m, s, injected + 1))
    /\ injected' = injected + 1
    /\ UNCHANGED <<pc, xpub_queue, service_cache, member_cache, out,
                   processed, polls, lastIter>>

NextLive == PublishOne \/ PublishMalformed \/ Control \/ Iteration \/ PollFails

SpecLive == Init /\ [][NextLive]_vars /\ WF_vars(Iteration)

\* No subscribe record is waiting on xpub_sock.
NoSubscribeWaiting ==
    \A i \in DOMAIN xpub_queue : xpub_queue[i] # SubscribeRecord

====
